---- MODULE Spec2Model ----
(***************************************************************************)
(* The quota-adaptive batch enrichment engine of My-Duolingo:              *)
(*   scripts/add_sentences.py        (job "add_sentences")                 *)
(*   scripts/update_thai_meanings.py (job "update_thai_meanings")          *)
(* A text value is a sequence of one-character strings, so that strip,     *)
(* split, normalisation and join are computed as the code computes them.   *)
(***************************************************************************)
EXTENDS Integers, Sequences, FiniteSets, TLC

\* ------------------------------------------------------------------------
\* Bounds of the model
\* ------------------------------------------------------------------------
NumRows == 3
NumFiles == 2
BatchSize == 2
MaxCandidates == 2

\* ------------------------------------------------------------------------
\* Text
\* ------------------------------------------------------------------------
Max(a, b) == IF a >= b THEN a ELSE b
Min(a, b) == IF a <= b THEN a ELSE b

\* str.isspace of one character (the characters the model draws from)
IsSpace(c) == c \in {" ", "\t"}

\* the value None of a cell or of a JSON member; never a text the model draws
None == <<"None">>

\* `x or ""`
OrEmpty(v) == IF v = None THEN <<>> ELSE v

RECURSIVE LStrip(_)
LStrip(s) == IF s = <<>> THEN <<>>
             ELSE IF IsSpace(Head(s)) THEN LStrip(Tail(s)) ELSE s

RECURSIVE RStrip(_)
RStrip(s) == IF s = <<>> THEN <<>>
             ELSE IF IsSpace(s[Len(s)]) THEN RStrip(SubSeq(s, 1, Len(s) - 1)) ELSE s

\* str.strip()
Strip(s) == RStrip(LStrip(s))

RECURSIVE LStripQuote(_)
LStripQuote(s) == IF s = <<>> THEN <<>>
                  ELSE IF Head(s) = "\"" THEN LStripQuote(Tail(s)) ELSE s

RECURSIVE RStripQuote(_)
RStripQuote(s) == IF s = <<>> THEN <<>>
                  ELSE IF s[Len(s)] = "\"" THEN RStripQuote(SubSeq(s, 1, Len(s) - 1)) ELSE s

\* str.strip('"')
StripQuote(s) == RStripQuote(LStripQuote(s))

\* str.split(","): the pieces between commas, empty pieces included
RECURSIVE SplitComma(_)
SplitComma(s) ==
    IF \A i \in 1..Len(s) : s[i] /= "," THEN <<s>>
    ELSE LET k == CHOOSE i \in 1..Len(s) : s[i] = "," /\ \A j \in 1..(i - 1) : s[j] /= ","
         IN  <<SubSeq(s, 1, k - 1)>> \o SplitComma(SubSeq(s, k + 1, Len(s)))

\* ", ".join(list)
RECURSIVE JoinComma(_)
JoinComma(l) == IF l = <<>> THEN <<>>
                ELSE IF Len(l) = 1 THEN l[1]
                ELSE l[1] \o <<",", " ">> \o JoinComma(Tail(l))

\* the list without its entries that fail keep(_)
RECURSIVE FilterStripped(_)
FilterStripped(ps) == IF ps = <<>> THEN <<>>
                      ELSE IF Strip(Head(ps)) /= <<>>
                           THEN <<Strip(Head(ps))>> \o FilterStripped(Tail(ps))
                           ELSE FilterStripped(Tail(ps))

split_thai_list(thai_value) ==
    LET s == StripQuote(Strip(OrEmpty(thai_value)))
    IN  IF s = <<>> THEN <<>> ELSE FilterStripped(SplitComma(s))

\* re.sub(r"\s+", " ", s): every run of whitespace becomes one space
RECURSIVE CollapseSpace(_)
CollapseSpace(s) ==
    IF s = <<>> THEN <<>>
    ELSE IF IsSpace(Head(s)) THEN <<" ">> \o CollapseSpace(LStrip(s))
    ELSE <<Head(s)>> \o CollapseSpace(Tail(s))

normalize_token(t) == CollapseSpace(Strip(OrEmpty(t)))

InSeq(x, l) == \E i \in 1..Len(l) : l[i] = x

\* one loop of merge_synonyms: append the normalised entries not seen yet
RECURSIVE MergeLoop(_, _)
MergeLoop(merged, items) ==
    IF items = <<>> THEN merged
    ELSE LET nt == normalize_token(Head(items))
         IN  IF nt /= <<>> /\ ~InSeq(nt, merged)
             THEN MergeLoop(Append(merged, nt), Tail(items))
             ELSE MergeLoop(merged, Tail(items))

\* merged[:cap], for cap >= 0
Take(l, n) == SubSeq(l, 1, Min(n, Len(l)))

merge_synonyms_new_first(existing, new_items, cap) ==
    Take(MergeLoop(MergeLoop(<<>>, new_items), existing), cap)

merge_synonyms_uncapped(existing, new_items, cap) ==
    MergeLoop(MergeLoop(<<>>, existing), new_items)

merge_synonyms(existing, new_items, cap) ==
    Take(MergeLoop(MergeLoop(<<>>, existing), new_items), cap)

\* ------------------------------------------------------------------------
\* Error messages and their classification
\* ------------------------------------------------------------------------
\* An error message is a set of fragments of its text.  `needle in msg` is true
\* when some fragment contains the needle; the two tables list, for each
\* fragment, the needles of the classifiers that occur in it.
FragHas(frag) ==
    CASE frag = "generate_content_free_tier_requests" -> {"generate_content_free_tier_requests"}
      [] frag = "GenerateRequestsPerDayPerProjectPerModel-FreeTier" ->
              {"GenerateRequestsPerDayPerProjectPerModel-FreeTier"}
      [] frag = "429" -> {"429"}
      [] frag = "RESOURCE_EXHAUSTED" -> {"RESOURCE_EXHAUSTED"}
      [] frag = "Too Many Requests" -> {"Too Many Requests"}
      [] OTHER -> {}

\* needles that occur in frag.lower()
FragLowerHas(frag) ==
    CASE frag = "generate_content_free_tier_requests" -> {"rate"}
      [] frag = "GenerateRequestsPerDayPerProjectPerModel-FreeTier" -> {"rate"}
      [] frag = "GenerateRequestsPerMinutePerProjectPerModel-FreeTier" -> {"rate"}
      [] frag = "You exceeded your current quota" -> {"quota"}
      [] OTHER -> {}

Contains(msg, needle) == \E f \in msg : needle \in FragHas(f)
LowerContains(msg, needle) == \E f \in msg : needle \in FragLowerHas(f)

\* the daily free-tier exhaustion the service reports
MsgDaily == {"429", "RESOURCE_EXHAUSTED", "You exceeded your current quota",
             "generate_content_free_tier_requests",
             "GenerateRequestsPerDayPerProjectPerModel-FreeTier"}
\* the per-minute window of the same metric
MsgMinute == {"429", "RESOURCE_EXHAUSTED", "You exceeded your current quota",
              "generate_content_free_tier_requests",
              "GenerateRequestsPerMinutePerProjectPerModel-FreeTier"}
MsgTooMany == {"429", "Too Many Requests"}
MsgNetwork == {"Connection reset by peer"}
\* ValueError of extract_json_object
MsgMalformed == {"No JSON object found in model output"}
\* AttributeError of (5).strip()
MsgAttribute == {"'int' object has no attribute 'strip'"}

ErrorMessages == {MsgDaily, MsgMinute, MsgTooMany, MsgNetwork, MsgMalformed}

is_quota_daily_free_tier(msg) ==
    /\ Contains(msg, "generate_content_free_tier_requests")
    /\ Contains(msg, "GenerateRequestsPerDayPerProjectPerModel-FreeTier")

is_rate_limit(msg) ==
    \/ Contains(msg, "429")
    \/ Contains(msg, "RESOURCE_EXHAUSTED")
    \/ Contains(msg, "Too Many Requests")
    \/ LowerContains(msg, "rate")
    \/ LowerContains(msg, "quota")

is_quota_error(msg) ==
    \/ Contains(msg, "429")
    \/ Contains(msg, "RESOURCE_EXHAUSTED")
    \/ Contains(msg, "Too Many Requests")
    \/ LowerContains(msg, "rate")
    \/ LowerContains(msg, "quota")

\* ------------------------------------------------------------------------
\* JSON values of a parsed response
\* ------------------------------------------------------------------------
\* A member value: a string, null (or absent), or a number.
JStr(s) == [kind |-> "str", s |-> s]
JNull == [kind |-> "null", s |-> <<>>]
JNum == [kind |-> "num", s |-> <<>>]

\* `v or ""` of a member value that is then asked for .strip()
StripRaises(v) == v.kind = "num"
TextOf(v) == IF v.kind = "str" THEN v.s ELSE <<>>

\* int(idx_str) of a key: surrounding whitespace, one sign, decimal digits
Digits == <<"0", "1", "2", "3", "4", "5", "6", "7", "8", "9">>
IsDigit(c) == \E d \in 1..10 : Digits[d] = c
DigitVal(c) == (CHOOSE d \in 1..10 : Digits[d] = c) - 1

RECURSIVE DigitsVal(_, _)
DigitsVal(s, acc) == IF s = <<>> THEN acc
                     ELSE DigitsVal(Tail(s), 10 * acc + DigitVal(Head(s)))

ParseInt(key) ==
    LET t == Strip(key)
        signed == t /= <<>> /\ Head(t) \in {"-", "+"}
        body == IF signed THEN Tail(t) ELSE t
    IN  IF body = <<>> \/ \E i \in 1..Len(body) : ~IsDigit(body[i])
        THEN [ok |-> FALSE, val |-> 0]
        ELSE [ok |-> TRUE,
              val |-> IF signed /\ Head(t) = "-" THEN 0 - DigitsVal(body, 0)
                      ELSE DigitsVal(body, 0)]

\* ------------------------------------------------------------------------
\* State
\* ------------------------------------------------------------------------
VARIABLES
    job,            \* which script runs: "add_sentences" or "update_thai_meanings"
    fallback_model, \* --fallback-model ("" when given empty)
    api_key,        \* the environment's GEMINI_API_KEY, None when unset
    args_min_interval, \* --min-interval
    disk,           \* disk[f]: the dataset file f, [exists, fieldnames, rows]
    file_idx,       \* position of main's loop over args.files
    pc,             \* position of the process
    rows,           \* process_file: the records in memory
    fieldnames,     \* process_file: the schema in memory
    start,          \* process_file: first index of the current batch
    attempt,        \* the retry loop's attempt number
    results,        \* add_sentences: what generate_sentences_batch returned
    updated,        \* updated / updated_rows
    api_calls,
    batches_since_ckpt,
    elapsed,        \* time.time() - last_call_ts, counted up to min_interval
    current_model,
    cooldown_level,
    consecutive_quota_fail_batches,
    m_in,           \* merge_synonyms called alone: its arguments
    m_out,          \*   and its result
    \* what the latest step did, and the history the properties read
    sent,           \* the step sent a request to the service
    wrote,          \* the step called write_csv_atomic
    last_outcome,   \* class of the latest attempt of the current batch
    fatal_seen,     \* add_sentences: a request of this process failed quota-fatal
    batch_rows0,    \* the records when the current batch was entered
    streak,         \* quota failures of the current file, counted
    run,            \* 1 in the first process on the files, 2 in the one run after it
    saved,          \* saved[r]: the files when process r began
    abandoned,      \* <<file, start>> of the batches the first process gave up
    since_req,      \* seconds since the latest request began, up to min_interval
    batch_reqs      \* requests sent for the current batch

vars == <<job, fallback_model, disk, file_idx, pc, rows, fieldnames, start, attempt,
          results, updated, api_calls, batches_since_ckpt, elapsed,
          current_model, cooldown_level, consecutive_quota_fail_batches, m_in, m_out,
          sent, wrote, last_outcome, fatal_seen, batch_rows0, streak,
          api_key, args_min_interval, run, saved, abandoned, since_req, batch_reqs>>

\* ------------------------------------------------------------------------
\* Program constants and the run's parameters
\* ------------------------------------------------------------------------
AS == "add_sentences"
UT == "update_thai_meanings"

\* generate_sentences_batch(max_retries=3)
max_retries == 3
\* --max-batch-retries
max_batch_retries == 3
\* --min-interval of the two scripts
AS_min_interval == 3
UT_min_interval == 90
\* --checkpoint-every of add_sentences.py, and the one update_thai_meanings.py runs with
AS_checkpoint_every == 2
UT_checkpoint_every == 2
\* --target-total
TargetTotal == 4
\* --model
model_name == "gemini-2.5-flash"
cooldown_schedule == <<30, 120, 300, 600, 1200, 1800>>
\* random.uniform(0.9, 1.1) and random.uniform(0.9, 1.2), in tenths: the ends
UT_Jitter == {9, 11}
AS_Jitter == {9, 12}

\* the default of --min-interval in script j
default_min_interval(j) == IF j = AS THEN AS_min_interval ELSE UT_min_interval

\* args.min_interval, as main hands it to process_file
min_interval(j) == args_min_interval

\* the clock reading t seconds after last_call_ts; pace() looks at nothing
\* beyond min_interval
Clock(j, t) == Min(t, min_interval(j))

\* ------------------------------------------------------------------------
\* Datasets
\* ------------------------------------------------------------------------
Txt_a == <<"a">>
Txt_b == <<"b">>
Row(e, t, j, h) == [expression |-> e, thai |-> t, jp_sentence |-> j, th_sentence |-> h]

\* records of n5.csv as add_sentences meets them
AS_RowKinds ==
    { Row(Txt_a, Txt_a, <<>>, <<>>),            \* no sentence yet
      Row(Txt_a, Txt_a, Txt_a, Txt_b),          \* both sentences present
      Row(Txt_a, Txt_a, <<" ">>, Txt_b),        \* a blank Japanese one
      Row(<<>>, Txt_a, <<>>, <<>>) }            \* no expression

\* records as update_thai_meanings meets them: the column 'ความหมาย' with
\* no entry, with three, with four
UT_RowKinds ==
    { Row(Txt_a, <<>>, None, None),
      Row(Txt_a, <<"a", ",", " ", "b", ",", " ", "c">>, None, None),
      Row(Txt_a, <<"a", ",", " ", "b", ",", " ", "c", ",", " ", "d">>, None, None) }

\* the schema of a dataset file; 'thai' stands for the column 'ความหมาย'
BaseFields == <<"expression", "thai">>
SentenceFields == <<"jp_sentence", "th_sentence">>

File(f, r) == [exists |-> TRUE, fieldnames |-> f, rows |-> r]
MissingFile == [exists |-> FALSE, fieldnames |-> <<>>, rows |-> <<>>]

\* the records of a file of one record
LaterRows(k) == [i \in {1} |-> k]

\* a file add_sentences never ran on: no sentence column, so no sentence cell
FreshFile == File(BaseFields, LaterRows(Row(Txt_a, Txt_a, None, None)))
\* a file without the column 'ความหมาย'
NoThaiFile == File(<<"expression">>, LaterRows(Row(Txt_a, None, None, None)))


\* A run on one file takes any NumRows records; in a run on several files
\* each holds one record, or lacks its columns, or is missing.
FirstFiles(j) ==
    IF j = AS
    THEN { File(BaseFields \o SentenceFields, r) : r \in [1..NumRows -> AS_RowKinds] }
    ELSE { File(BaseFields, r) : r \in [1..NumRows -> UT_RowKinds] }

LaterFiles(j) ==
    IF j = AS
    THEN { File(BaseFields \o SentenceFields, LaterRows(k)) : k \in AS_RowKinds }
           \cup {FreshFile, MissingFile}
    ELSE { File(BaseFields, LaterRows(k)) : k \in UT_RowKinds }
           \cup {NoThaiFile, MissingFile}

\* ------------------------------------------------------------------------
\* Responses of the service, parsed: a sequence of [key, val] in document order
\* ------------------------------------------------------------------------
Entry(k, v) == [key |-> k, val |-> v]
\* a value of add_sentences' response: an object with members jp and th, or not
JObj(jp, th) == [kind |-> "obj", jp |-> jp, th |-> th]
JOther == [kind |-> "other", jp |-> JNull, th |-> JNull]

Txt_x == <<"x">>
Txt_y == <<"y">>
Key0 == <<"0">>
Key1 == <<"1">>
KeyFar == <<"9">>
KeyWord == <<"x">>
KeyNeg == <<"-", "1">>

AS_Responses ==
    { <<>>,
      <<Entry(Key0, JObj(JStr(Txt_x), JStr(Txt_y))), Entry(Key1, JObj(JStr(Txt_x), JStr(Txt_y)))>>,
      <<Entry(Key1, JObj(JStr(<<" ", "x", " ">>), JStr(Txt_y))), Entry(KeyFar, JObj(JStr(Txt_x), JStr(Txt_y))),
        Entry(KeyWord, JObj(JStr(Txt_x), JStr(Txt_y)))>>,
      <<Entry(Key0, JObj(JStr(<<" ">>), JStr(Txt_y))), Entry(Key1, JOther),
        Entry(KeyNeg, JObj(JStr(Txt_x), JStr(Txt_y)))>>,
      <<Entry(Key0, JObj(JStr(Txt_x), JNull)), Entry(Key1, JObj(JStr(Txt_x), JStr(Txt_y)))>>,
      <<Entry(Key0, JObj(JStr(Txt_x), JStr(Txt_y))), Entry(Key1, JObj(JNum, JStr(Txt_y)))>> }

UT_Responses ==
    { <<>>,
      <<Entry(Key0, JStr(<<"w", ",", " ", "x", ",", "y", ",", "z">>)),
        Entry(Key1, JStr(<<"w", ",", " ", "x", ",", "y", ",", "z">>))>>,
      <<Entry(Key0, JStr(<<"a", " ", ",", "x">>)), Entry(KeyFar, JStr(Txt_x)),
        Entry(KeyWord, JStr(Txt_x))>>,
      <<Entry(Key0, JNull), Entry(Key1, JStr(<<"d", ",", "d">>)), Entry(KeyNeg, JStr(Txt_x))>>,
      <<Entry(Key0, JStr(Txt_x)), Entry(Key1, JNum)>> }

\* what one request can end in
Outcomes(j) == { [kind |-> "exc", msg |-> m, result |-> <<>>] : m \in ErrorMessages }
               \cup { [kind |-> "ok", msg |-> {}, result |-> r] :
                        r \in IF j = AS THEN AS_Responses ELSE UT_Responses }

\* ------------------------------------------------------------------------
\* Helpers of both process_file
\* ------------------------------------------------------------------------
\* indices (1-based) of rows[start : start + batch_size]
BatchIdx(rws, st) == (st + 1)..Min(st + BatchSize, Len(rws))
BatchLen_whole(rws, st) == Len(rws) - st

\* len(batch)
BatchLen(rws, st) == Min(st + BatchSize, Len(rws)) - st

CellOut_filled(v) == IF v = None \/ Strip(v) = <<>> THEN <<"a">> ELSE v

\* write_csv_atomic(path, fieldnames, rows): cells of None are written empty
\* (DictWriter's restval), only the columns of fieldnames are written
CellOut(v) == IF v = None THEN <<>> ELSE v
HasField(fn, c) == \E i \in 1..Len(fn) : fn[i] = c
RowOut(fn, r) == [expression |-> IF HasField(fn, "expression") THEN CellOut(r.expression) ELSE None,
                  thai |-> IF HasField(fn, "thai") THEN CellOut(r.thai) ELSE None,
                  jp_sentence |-> IF HasField(fn, "jp_sentence") THEN CellOut(r.jp_sentence) ELSE None,
                  th_sentence |-> IF HasField(fn, "th_sentence") THEN CellOut(r.th_sentence) ELSE None]
write_csv_atomic_header_only(d, f, fn, rws) ==
    [d EXCEPT ![f] = File(fn, d[f].rows)]

write_csv_atomic(d, f, fn, rws) ==
    [d EXCEPT ![f] = File(fn, [i \in 1..Len(rws) |-> RowOut(fn, rws[i])])]

\* pace() called el seconds after last_call_ts: the seconds it sleeps, and
\* the clock when it returns (last_call_ts = time.time())
pace(j, el) == [wait |-> Max(0, min_interval(j) - el), elapsed |-> 0]

checkpoint_due_late(n, every) == n > every

\* batches_since_ckpt >= checkpoint_every, after the increment
checkpoint_due(n, every) == n >= every

\* the batch at st of file f is given up; only the first process is recorded
Abandon(ab, r, f, st) == IF r = 1 THEN ab \cup {<<f, st>>} ELSE ab

\* the class of a failure by its message, as the two classifiers of
\* add_sentences.py decide it
Classify(msg) == IF is_quota_daily_free_tier(msg) THEN "fatal"
                 ELSE IF is_rate_limit(msg) THEN "transient"
                 ELSE "other"

\* level0: the cooldown level after the latest attempt that was no transient
\*         quota failure; run: the transient quota failures in a row since;
\* since_success: the quota failures since the latest success;
\* two: two transient quota failures in a row happened since the latest success;
\* quota_run: the failures in a row that is_quota_error classifies as quota
NoStreak == [level0 |-> 0, run |-> 0, since_success |-> 0, two |-> FALSE, quota_run |-> 0]

\* the history after an attempt of class c that left the cooldown level lvl
StreakAfter(sk, c, lvl) ==
    IF c = "success" THEN [level0 |-> lvl, run |-> 0, since_success |-> 0, two |-> FALSE,
                           quota_run |-> 0]
    ELSE IF c = "transient"
         THEN [level0 |-> sk.level0, run |-> sk.run + 1, since_success |-> sk.since_success + 1,
               two |-> (sk.two \/ sk.run + 1 >= 2), quota_run |-> sk.quota_run + 1]
    ELSE [level0 |-> lvl, run |-> 0,
          since_success |-> sk.since_success + (IF c = "fatal" THEN 1 ELSE 0), two |-> sk.two,
          quota_run |-> IF c = "fatal" THEN sk.quota_run + 1 ELSE 0]

\* ------------------------------------------------------------------------
\* add_sentences.py
\* ------------------------------------------------------------------------
\* a record holds both sentences
AS_has_both(r) == /\ Strip(OrEmpty(r.jp_sentence)) /= <<>>
                  /\ Strip(OrEmpty(r.th_sentence)) /= <<>>

\* process_file: the batch needs nothing
AS_skip(rws, st) == \A i \in BatchIdx(rws, st) : AS_has_both(rws[i])

\* generate_sentences_batch: the local indices put in the prompt
AS_items(rws, st) ==
    { i - st - 1 : i \in { k \in BatchIdx(rws, st) :
                            /\ ~AS_has_both(rws[k])
                            /\ Strip(OrEmpty(rws[k].expression)) /= <<>> } }

AS_fill_overwrite(r, jp, th) == [r EXCEPT !.jp_sentence = jp, !.th_sentence = th]

\* process_file, the body of the loop over results.items() for one entry that
\* passed the checks: the record with the candidate written to its empty cells
AS_fill(r, jp, th) ==
    LET r1 == IF Strip(OrEmpty(r.jp_sentence)) = <<>> THEN [r EXCEPT !.jp_sentence = jp] ELSE r
    IN  IF Strip(OrEmpty(r1.th_sentence)) = <<>> THEN [r1 EXCEPT !.th_sentence = th] ELSE r1

\* process_file, the loop over results.items(): the records, the count of
\* updates and whether the loop raised, after the entries es
RECURSIVE AS_apply(_, _, _, _)
AS_apply(rws, st, es, upd) ==
    IF es = <<>> THEN [rows |-> rws, updated |-> upd, raised |-> FALSE]
    ELSE LET e == Head(es)
             idx == ParseInt(e.key)
             i == st + idx.val + 1
         IN  IF ~idx.ok \/ idx.val < 0 \/ idx.val >= BatchLen(rws, st) \/ e.val.kind /= "obj"
             THEN AS_apply(rws, st, Tail(es), upd)
             ELSE IF StripRaises(e.val.jp) \/ StripRaises(e.val.th)
             THEN [rows |-> rws, updated |-> upd, raised |-> TRUE]
             ELSE LET jp == Strip(TextOf(e.val.jp))
                      th == Strip(TextOf(e.val.th))
                  IN  IF jp = <<>> \/ th = <<>>
                      THEN AS_apply(rws, st, Tail(es), upd)
                      ELSE AS_apply([rws EXCEPT ![i] = AS_fill(rws[i], jp, th)],
                                    st, Tail(es), upd + 1)

AS_fieldnames_always(fn) == Append(Append(fn, "jp_sentence"), "th_sentence")

\* process_file appends the sentence columns the file lacks
AS_fieldnames(fn) ==
    LET f1 == IF HasField(fn, "jp_sentence") THEN fn ELSE Append(fn, "jp_sentence")
    IN  IF HasField(f1, "th_sentence") THEN f1 ELSE Append(f1, "th_sentence")

\* generate_sentences_batch: the sleep after a failed attempt, jitter j in tenths
AS_sleep(msg, att, j) ==
    IF is_rate_limit(msg)
    THEN (Min(120, 10 * (2 ^ (att - 1))) * j) \div 10
    ELSE Min(20, 3 * att)

\* variables that only update_thai_meanings.py writes
UT_state == <<current_model, cooldown_level, consecutive_quota_fail_batches>>
\* variables of the lone call of merge_synonyms
M_state == <<m_in, m_out>>
\* what the run was started with
Params == <<job, fallback_model, api_key, args_min_interval>>
\* what only the start of a second process writes
History == <<run, saved>>
\* what the requests and the batches given up leave behind
Trace == <<abandoned, since_req, batch_reqs>>

\* process_file has returned to main: its local variables are gone
Returned ==
    /\ pc' = "main"
    /\ file_idx' = file_idx + 1
    /\ rows' = <<>>
    /\ fieldnames' = <<>>
    /\ start' = 0
    /\ attempt' = 0
    /\ results' = <<>>
    /\ updated' = 0
    /\ api_calls' = 0
    /\ batches_since_ckpt' = 0
    /\ elapsed' = 0
    /\ current_model' = model_name
    /\ cooldown_level' = 0
    /\ consecutive_quota_fail_batches' = 0
    /\ last_outcome' = "none"
    /\ batch_rows0' = <<>>
    /\ streak' = NoStreak
    /\ since_req' = min_interval(job)
    /\ batch_reqs' = 0
    /\ UNCHANGED abandoned

\* main, one turn of `for fname in args.files`, and the start of process_file
AS_Open ==
    /\ job = AS /\ pc = "main" /\ file_idx <= Len(disk)
    /\ IF ~disk[file_idx].exists
       THEN Returned
       ELSE /\ rows' = disk[file_idx].rows
            /\ fieldnames' = AS_fieldnames(disk[file_idx].fieldnames)
            /\ elapsed' = Clock(AS, min_interval(AS))
            /\ pc' = "loop"
            /\ UNCHANGED <<file_idx, start, attempt, results, updated, api_calls,
                           batches_since_ckpt, UT_state, last_outcome, batch_rows0, streak,
                           Trace>>
    /\ sent' = FALSE
    /\ wrote' = FALSE
    /\ UNCHANGED <<Params, History, disk, M_state, fatal_seen>>

\* main returns after the last file
AS_Exit ==
    /\ job = AS /\ pc = "main" /\ file_idx > Len(disk)
    /\ pc' = "done"
    /\ sent' = FALSE
    /\ wrote' = FALSE
    /\ UNCHANGED <<Params, History, disk, file_idx, rows, fieldnames, start, attempt, results, updated,
                   api_calls, batches_since_ckpt, elapsed, UT_state, M_state,
                   last_outcome, fatal_seen, batch_rows0, streak, Trace>>

\* process_file: a batch whose records all hold both sentences
AS_Skip ==
    /\ job = AS /\ pc = "loop" /\ start < Len(rows)
    /\ AS_skip(rows, start)
    /\ start' = start + BatchSize
    /\ sent' = FALSE
    /\ wrote' = FALSE
    /\ UNCHANGED <<Params, History, disk, file_idx, pc, rows, fieldnames, attempt, results, updated,
                   api_calls, batches_since_ckpt, elapsed, UT_state, M_state,
                   last_outcome, fatal_seen, batch_rows0, streak, Trace>>

\* process_file: pace(), then generate_sentences_batch up to its retry loop
AS_Enter ==
    /\ job = AS /\ pc = "loop" /\ start < Len(rows)
    /\ ~AS_skip(rows, start)
    /\ elapsed' = pace(AS, elapsed).elapsed
    /\ batch_rows0' = rows
    /\ IF AS_items(rows, start) = {}
       THEN results' = <<>> /\ pc' = "apply" /\ attempt' = 0
       ELSE results' = <<>> /\ pc' = "gen" /\ attempt' = 1
    /\ since_req' = Clock(AS, since_req + pace(AS, elapsed).wait)
    /\ batch_reqs' = 0
    /\ sent' = FALSE
    /\ wrote' = FALSE
    /\ UNCHANGED <<Params, History, disk, file_idx, rows, fieldnames, start, updated, api_calls,
                   batches_since_ckpt, UT_state, M_state, last_outcome, fatal_seen, streak,
                   abandoned>>

AS_after_error_retry_all(msg, att) ==
    IF att >= max_retries THEN "apply" ELSE "gen"

\* generate_sentences_batch: where the except branch goes
AS_after_error(msg, att) ==
    IF is_quota_daily_free_tier(msg) THEN "fatal"
    ELSE IF att >= max_retries THEN "apply" ELSE "gen"

\* generate_sentences_batch: one turn of `for attempt in range(1, max_retries + 1)`
AS_Attempt ==
    /\ job = AS /\ pc = "gen"
    /\ \E o \in Outcomes(AS), j \in AS_Jitter :
        IF o.kind = "ok"
        THEN /\ results' = o.result
             /\ pc' = "apply"
             /\ last_outcome' = "success"
             /\ since_req' = 0
             /\ UNCHANGED <<elapsed, attempt, fatal_seen, abandoned>>
        ELSE /\ pc' = AS_after_error(o.msg, attempt)
             /\ last_outcome' = Classify(o.msg)
             /\ fatal_seen' = (fatal_seen \/ Classify(o.msg) = "fatal")
             /\ elapsed' = IF pc' = "fatal" THEN elapsed
                           ELSE Clock(AS, elapsed + AS_sleep(o.msg, attempt, j))
             /\ since_req' = IF pc' = "fatal" THEN 0
                             ELSE Clock(AS, AS_sleep(o.msg, attempt, j))
             /\ attempt' = IF pc' = "gen" THEN attempt + 1 ELSE attempt
             /\ results' = <<>>
             /\ abandoned' = IF pc' = "apply" THEN Abandon(abandoned, run, file_idx, start)
                             ELSE abandoned
    /\ batch_reqs' = batch_reqs + 1
    /\ sent' = TRUE
    /\ wrote' = FALSE
    /\ UNCHANGED <<Params, History, disk, file_idx, rows, fieldnames, start, updated, api_calls,
                   batches_since_ckpt, UT_state, M_state, batch_rows0, streak>>

\* process_file: except ... is_quota_daily_free_tier: write_csv_atomic; return
AS_FatalSave ==
    /\ job = AS /\ pc = "fatal"
    /\ disk' = write_csv_atomic(disk, file_idx, fieldnames, rows)
    /\ Returned
    /\ sent' = FALSE
    /\ wrote' = TRUE
    /\ UNCHANGED <<Params, History, M_state, fatal_seen>>

\* process_file: api_calls += 1 and the loop over results.items(); an
\* AttributeError of the loop is caught nowhere and ends the process
AS_Apply ==
    /\ job = AS /\ pc = "apply"
    /\ \E a \in {AS_apply(rows, start, results, updated)} :
           /\ rows' = a.rows
           /\ updated' = a.updated
           /\ pc' = IF a.raised THEN "crashed" ELSE "ckpt"
    /\ api_calls' = api_calls + 1
    /\ sent' = FALSE
    /\ wrote' = FALSE
    /\ UNCHANGED <<Params, History, disk, file_idx, fieldnames, start, attempt, results,
                   batches_since_ckpt, elapsed, UT_state, M_state,
                   last_outcome, fatal_seen, batch_rows0, streak, Trace>>

\* process_file: the checkpoint counter at the end of the loop body
AS_Checkpoint ==
    /\ job = AS /\ pc = "ckpt"
    /\ IF checkpoint_due(batches_since_ckpt + 1, AS_checkpoint_every)
       THEN /\ disk' = write_csv_atomic(disk, file_idx, fieldnames, rows)
            /\ wrote' = TRUE
            /\ batches_since_ckpt' = 0
       ELSE /\ batches_since_ckpt' = batches_since_ckpt + 1
            /\ wrote' = FALSE
            /\ UNCHANGED disk
    /\ start' = start + BatchSize
    /\ pc' = "loop"
    /\ results' = <<>>
    /\ attempt' = 0
    /\ last_outcome' = "none"
    /\ batch_rows0' = <<>>
    /\ sent' = FALSE
    /\ UNCHANGED <<Params, History, file_idx, rows, fieldnames, updated, api_calls,
                   elapsed, UT_state, M_state, fatal_seen, streak, Trace>>

\* process_file: the write after the last batch, and the return to main
AS_Final ==
    /\ job = AS /\ pc = "loop" /\ start >= Len(rows)
    /\ disk' = write_csv_atomic(disk, file_idx, fieldnames, rows)
    /\ Returned
    /\ sent' = FALSE
    /\ wrote' = TRUE
    /\ UNCHANGED <<Params, History, M_state, fatal_seen>>

AS_Next == AS_Open \/ AS_Exit \/ AS_Skip \/ AS_Enter \/ AS_Attempt \/ AS_FatalSave
           \/ AS_Apply \/ AS_Checkpoint \/ AS_Final

\* ------------------------------------------------------------------------
\* update_thai_meanings.py
\* ------------------------------------------------------------------------
\* need = max(0, target_total - len(existing))
UT_need(r) == Max(0, TargetTotal - Len(split_thai_list(r.thai)))

UT_skip_strict(rws, st) ==
    \A i \in BatchIdx(rws, st) : Len(split_thai_list(rws[i].thai)) > TargetTotal

\* process_file: every record of the batch holds target_total entries
UT_skip(rws, st) ==
    \A i \in BatchIdx(rws, st) : Len(split_thai_list(rws[i].thai)) >= TargetTotal

\* generate_additions_batch_once: the local indices put in the prompt
UT_items(rws, st) == { i - st - 1 : i \in { k \in BatchIdx(rws, st) : UT_need(rws[k]) /= 0 } }

\* process_file: the cell one response entry makes of a record
UT_merged_cell(r, val) ==
    LET existing_list == split_thai_list(r.thai)
        additions_list == Take(split_thai_list(TextOf(val)), UT_need(r))
    IN  JoinComma(merge_synonyms(existing_list, additions_list, TargetTotal))

\* process_file, the loop over results.items() inside the try
RECURSIVE UT_apply(_, _, _, _)
UT_apply(rws, st, es, upd) ==
    IF es = <<>> THEN [rows |-> rws, updated |-> upd, raised |-> FALSE]
    ELSE LET e == Head(es)
             idx == ParseInt(e.key)
             i == st + idx.val + 1
         IN  IF ~idx.ok \/ idx.val < 0 \/ idx.val >= BatchLen(rws, st)
             THEN UT_apply(rws, st, Tail(es), upd)
             ELSE IF UT_need(rws[i]) = 0
             THEN UT_apply(rws, st, Tail(es), upd)
             ELSE IF StripRaises(e.val)
             THEN [rows |-> rws, updated |-> upd, raised |-> TRUE]
             ELSE LET merged_str == UT_merged_cell(rws[i], e.val)
                      old == StripQuote(Strip(OrEmpty(rws[i].thai)))
                  IN  IF merged_str /= <<>> /\ merged_str /= old
                      THEN UT_apply([rws EXCEPT ![i].thai = merged_str], st, Tail(es), upd + 1)
                      ELSE UT_apply(rws, st, Tail(es), upd)

Adaptive(m, l, c) == [current_model |-> m, cooldown_level |-> l,
                      consecutive_quota_fail_batches |-> c]

UT_on_success_keep_level(a) == Adaptive(model_name, a.cooldown_level, 0)

\* process_file: the adaptive state after a successful attempt
UT_on_success(a) == Adaptive(model_name, Max(0, a.cooldown_level - 1), 0)

UT_on_quota_error_eager(a, fb) ==
    Adaptive(IF a.consecutive_quota_fail_batches + 1 >= 1 /\ fb /= "" THEN fb ELSE a.current_model,
             Min(a.cooldown_level + 1, Len(cooldown_schedule) - 1),
             a.consecutive_quota_fail_batches + 1)

\* process_file: the adaptive state after an attempt that failed on quota
UT_on_quota_error(a, fb) ==
    Adaptive(IF a.consecutive_quota_fail_batches + 1 >= 2 /\ fb /= "" THEN fb ELSE a.current_model,
             Min(a.cooldown_level + 1, Len(cooldown_schedule) - 1),
             a.consecutive_quota_fail_batches + 1)

UT_after_attempt_once_more(good, att) ==
    IF good \/ att > max_batch_retries THEN "ckpt" ELSE "attempt"

\* process_file: after attempt att the retry loop ends (success = True; break,
\* or range(1, max_batch_retries + 1) is used up) or takes its next turn
UT_after_attempt(good, att) ==
    IF good \/ att >= max_batch_retries THEN "ckpt" ELSE "attempt"

\* process_file: the sleep of the except branch at level lvl, jitter j in tenths
UT_sleep(msg, att, lvl, j) ==
    IF is_quota_error(msg)
    THEN (cooldown_schedule[lvl + 1] * j) \div 10
    ELSE Min(30, 3 * att)

\* main and the start of process_file
UT_Open ==
    /\ job = UT /\ pc = "main" /\ file_idx <= Len(disk)
    /\ IF ~disk[file_idx].exists \/ ~HasField(disk[file_idx].fieldnames, "thai")
       THEN Returned
       ELSE /\ rows' = disk[file_idx].rows
            /\ fieldnames' = disk[file_idx].fieldnames
            /\ elapsed' = Clock(UT, min_interval(UT))
            /\ pc' = "loop"
            /\ UNCHANGED <<file_idx, start, attempt, results, updated, api_calls,
                           batches_since_ckpt, UT_state, last_outcome, batch_rows0, streak,
                           Trace>>
    /\ sent' = FALSE
    /\ wrote' = FALSE
    /\ UNCHANGED <<Params, History, disk, M_state, fatal_seen>>

\* main returns after the last file
UT_Exit ==
    /\ job = UT /\ pc = "main" /\ file_idx > Len(disk)
    /\ pc' = "done"
    /\ sent' = FALSE
    /\ wrote' = FALSE
    /\ UNCHANGED <<Params, History, disk, file_idx, rows, fieldnames, start, attempt, results, updated,
                   api_calls, batches_since_ckpt, elapsed, UT_state, M_state,
                   last_outcome, fatal_seen, batch_rows0, streak, Trace>>

\* process_file: a batch whose records are all complete
UT_Skip ==
    /\ job = UT /\ pc = "loop" /\ start < Len(rows)
    /\ UT_skip(rows, start)
    /\ start' = start + BatchSize
    /\ sent' = FALSE
    /\ wrote' = FALSE
    /\ UNCHANGED <<Params, History, disk, file_idx, pc, rows, fieldnames, attempt, results, updated,
                   api_calls, batches_since_ckpt, elapsed, UT_state, M_state,
                   last_outcome, fatal_seen, batch_rows0, streak, Trace>>

\* process_file: success = False, and the retry loop begins
UT_Enter ==
    /\ job = UT /\ pc = "loop" /\ start < Len(rows)
    /\ ~UT_skip(rows, start)
    /\ attempt' = 1
    /\ batch_rows0' = rows
    /\ pc' = "attempt"
    /\ batch_reqs' = 0
    /\ sent' = FALSE
    /\ wrote' = FALSE
    /\ UNCHANGED <<Params, History, disk, file_idx, rows, fieldnames, start, results, updated,
                   api_calls, batches_since_ckpt, elapsed, UT_state, M_state,
                   last_outcome, fatal_seen, streak, abandoned, since_req>>

\* process_file: one turn of `for attempt in range(1, max_batch_retries + 1)`:
\* pace, the request, the loop over the results, and the except branch
UT_Attempt ==
    /\ job = UT /\ pc = "attempt"
    /\ \E o \in Outcomes(UT), j \in UT_Jitter :
       \E a \in {UT_apply(rows, start, IF o.kind = "ok" THEN o.result ELSE <<>>, updated)} :
        LET t1 == pace(UT, elapsed).elapsed
            ok == o.kind = "ok"
            good == ok /\ ~a.raised
            msg == IF ok THEN MsgAttribute ELSE o.msg
            old == Adaptive(current_model, cooldown_level, consecutive_quota_fail_batches)
            new == IF good THEN UT_on_success(old)
                   ELSE IF is_quota_error(msg) THEN UT_on_quota_error(old, fallback_model)
                   ELSE old
            class == IF good THEN "success" ELSE Classify(msg)
        IN  /\ api_calls' = IF ok THEN api_calls + 1 ELSE api_calls
            /\ rows' = a.rows
            /\ updated' = a.updated
            /\ current_model' = new.current_model
            /\ cooldown_level' = new.cooldown_level
            /\ consecutive_quota_fail_batches' = new.consecutive_quota_fail_batches
            /\ elapsed' = IF good THEN Clock(UT, t1)
                          ELSE Clock(UT, t1 + UT_sleep(msg, attempt, new.cooldown_level, j))
            /\ since_req' = elapsed'
            /\ pc' = UT_after_attempt(good, attempt)
            /\ abandoned' = IF ~good /\ pc' = "ckpt"
                            THEN Abandon(abandoned, run, file_idx, start) ELSE abandoned
            /\ attempt' = IF pc' = "attempt" THEN attempt + 1 ELSE attempt
            /\ last_outcome' = class
            /\ streak' = StreakAfter(streak, class, new.cooldown_level)
    /\ batch_reqs' = batch_reqs + 1
    /\ sent' = TRUE
    /\ wrote' = FALSE
    /\ UNCHANGED <<Params, History, disk, file_idx, fieldnames, start, results, batches_since_ckpt,
                   M_state, fatal_seen, batch_rows0>>

\* process_file: the checkpoint counter after the retry loop
UT_Checkpoint ==
    /\ job = UT /\ pc = "ckpt"
    /\ IF checkpoint_due(batches_since_ckpt + 1, UT_checkpoint_every)
       THEN /\ disk' = write_csv_atomic(disk, file_idx, fieldnames, rows)
            /\ wrote' = TRUE
            /\ batches_since_ckpt' = 0
       ELSE /\ batches_since_ckpt' = batches_since_ckpt + 1
            /\ wrote' = FALSE
            /\ UNCHANGED disk
    /\ start' = start + BatchSize
    /\ pc' = "loop"
    /\ attempt' = 0
    /\ last_outcome' = "none"
    /\ batch_rows0' = <<>>
    /\ sent' = FALSE
    /\ UNCHANGED <<Params, History, file_idx, rows, fieldnames, results, updated, api_calls,
                   elapsed, UT_state, M_state, fatal_seen, streak, Trace>>

\* process_file: the write after the last batch, and the return to main
UT_Final ==
    /\ job = UT /\ pc = "loop" /\ start >= Len(rows)
    /\ disk' = write_csv_atomic(disk, file_idx, fieldnames, rows)
    /\ Returned
    /\ sent' = FALSE
    /\ wrote' = TRUE
    /\ UNCHANGED <<Params, History, M_state, fatal_seen>>

UT_Next == UT_Open \/ UT_Exit \/ UT_Skip \/ UT_Enter \/ UT_Attempt \/ UT_Checkpoint \/ UT_Final

\* ------------------------------------------------------------------------
\* The two scripts
\* ------------------------------------------------------------------------
FallbackModels == {"", "gemini-2.5-flash-lite"}

\* GEMINI_API_KEY: unset, blank, set
Keys == { None, <<" ">>, <<"k">> }

get_gemini_key_unset_only(key) ==
    IF key = None THEN [exit |-> TRUE, key |-> <<>>] ELSE [exit |-> FALSE, key |-> Strip(key)]

\* get_gemini_key: sys.exit(2) unless the key holds more than whitespace
get_gemini_key(key) ==
    IF key = None \/ Strip(key) = <<>> THEN [exit |-> TRUE, key |-> <<>>]
    ELSE [exit |-> FALSE, key |-> Strip(key)]

\* main of either script, up to its loop over args.files
main_start ==
    /\ job \in {AS, UT} /\ pc = "start"
    /\ pc' = IF get_gemini_key(api_key).exit THEN "exit" ELSE "main"
    /\ sent' = FALSE
    /\ wrote' = FALSE
    /\ UNCHANGED <<Params, History, disk, file_idx, rows, fieldnames, start, attempt, results,
                   updated, api_calls, batches_since_ckpt, elapsed, UT_state, M_state,
                   last_outcome, fatal_seen, batch_rows0, streak, Trace>>

\* the state of a process before main runs, on the files d
Started(d) ==
    /\ disk = d
    /\ file_idx = 1
    /\ pc = "start"
    /\ rows = <<>>
    /\ fieldnames = <<>>
    /\ start = 0
    /\ attempt = 0
    /\ results = <<>>
    /\ updated = 0
    /\ api_calls = 0
    /\ batches_since_ckpt = 0
    /\ elapsed = 0
    /\ current_model = model_name
    /\ cooldown_level = 0
    /\ consecutive_quota_fail_batches = 0
    /\ sent = FALSE
    /\ wrote = FALSE
    /\ last_outcome = "none"
    /\ fatal_seen = FALSE
    /\ batch_rows0 = <<>>
    /\ streak = NoStreak
    /\ run = 1
    /\ saved = <<d>>
    /\ abandoned = {}
    /\ since_req = args_min_interval
    /\ batch_reqs = 0

\* one script run on one file, of any NumRows records
Init ==
    /\ job \in {AS, UT}
    /\ fallback_model \in (IF job = UT THEN FallbackModels ELSE {""})
    /\ api_key \in Keys
    /\ args_min_interval = default_min_interval(job)
    /\ \E first \in FirstFiles(job) : Started(<<first>>)
    /\ m_in = <<>>
    /\ m_out = <<>>

Next == main_start \/ AS_Next \/ UT_Next

Spec == Init /\ [][Next]_vars

\* one script run on NumFiles files, each of one record, or lacking its
\* columns, or missing
InitFiles ==
    /\ job \in {AS, UT}
    /\ fallback_model \in (IF job = UT THEN FallbackModels ELSE {""})
    /\ api_key \in Keys
    /\ args_min_interval = default_min_interval(job)
    /\ \E d \in [1..NumFiles -> LaterFiles(job)] : Started(d)
    /\ m_in = <<>>
    /\ m_out = <<>>

SpecFiles == InitFiles /\ [][Next]_vars

\* The process is never suspended for ever: a statement that can run does run,
\* every request returns or raises, and every sleep ends.  For the steps that
\* compute on the records, weak fairness is written with the place of the
\* statement for ENABLED: WF_vars(A) is []<>~ENABLED <<A>>_vars \/ []<><<A>>_vars.
SpecLive ==
    /\ Init /\ [][Next]_vars
    /\ WF_vars(main_start \/ AS_Open \/ AS_Exit \/ AS_Skip \/ AS_Enter \/ AS_Attempt
                \/ AS_FatalSave \/ AS_Checkpoint \/ AS_Final
                \/ UT_Open \/ UT_Exit \/ UT_Checkpoint \/ UT_Final)
    /\ ([]<>~(job = AS /\ pc = "apply") \/ []<><<AS_Apply>>_vars)
    /\ ([]<>~(job = UT /\ pc = "attempt") \/ []<><<UT_Attempt>>_vars)
    /\ ([]<>~(job = UT /\ pc = "loop" /\ start < Len(rows)) \/ []<><<UT_Skip \/ UT_Enter>>_vars)

\* ------------------------------------------------------------------------
\* A script run again on the files its first process left
\* ------------------------------------------------------------------------
\* a dataset without records
EmptyFile == File(BaseFields, <<>>)

\* the datasets of a run that is repeated: each record either lacks what the
\* script adds or holds all of it
TwiceFiles(j) ==
    IF j = AS
    THEN { File(BaseFields \o SentenceFields, r) :
             r \in [1..NumRows -> { Row(Txt_a, Txt_a, <<>>, <<>>), Row(Txt_a, Txt_a, Txt_a, Txt_b) }] }
    ELSE { File(BaseFields, r) :
             r \in [1..NumRows -> { Row(Txt_a, <<>>, None, None),
                                    Row(Txt_a, <<"a", ",", " ", "b", ",", " ", "c", ",", " ", "d">>,
                                        None, None) }] }

\* the first process has ended, by main's return or by a traceback; the same
\* command is started again: nothing but the files passes to the new process
Rerun ==
    /\ job \in {AS, UT} /\ run = 1 /\ pc \in {"done", "crashed"}
    /\ run' = 2
    /\ saved' = Append(saved, disk)
    /\ pc' = "start"
    /\ file_idx' = 1
    /\ rows' = <<>>
    /\ fieldnames' = <<>>
    /\ start' = 0
    /\ attempt' = 0
    /\ results' = <<>>
    /\ updated' = 0
    /\ api_calls' = 0
    /\ batches_since_ckpt' = 0
    /\ elapsed' = 0
    /\ current_model' = model_name
    /\ cooldown_level' = 0
    /\ consecutive_quota_fail_batches' = 0
    /\ sent' = FALSE
    /\ wrote' = FALSE
    /\ last_outcome' = "none"
    /\ fatal_seen' = FALSE
    /\ batch_rows0' = <<>>
    /\ streak' = NoStreak
    /\ since_req' = min_interval(job)
    /\ batch_reqs' = 0
    /\ UNCHANGED <<Params, disk, M_state, abandoned>>

InitTwice ==
    /\ job \in {AS, UT}
    /\ fallback_model = (IF job = UT THEN "gemini-2.5-flash-lite" ELSE "")
    /\ api_key = <<"k">>
    /\ args_min_interval = default_min_interval(job)
    /\ \E first \in TwiceFiles(job) \cup {EmptyFile} : Started(<<first>>)
    /\ m_in = <<>>
    /\ m_out = <<>>

NextTwice == Next \/ Rerun

SpecTwice == InitTwice /\ [][NextTwice]_vars

\* ------------------------------------------------------------------------
\* A script run with --min-interval given
\* ------------------------------------------------------------------------
\* the default, and a value between the sleeps of the retry loops
MinIntervals(j) == IF j = AS THEN {AS_min_interval, 10} ELSE {UT_min_interval, 5}

InitPace ==
    /\ job \in {AS, UT}
    /\ fallback_model = (IF job = UT THEN "gemini-2.5-flash-lite" ELSE "")
    /\ api_key = <<"k">>
    /\ args_min_interval \in MinIntervals(job)
    /\ \E first \in FirstFiles(job) : Started(<<first>>)
    /\ m_in = <<>>
    /\ m_out = <<>>

SpecPace == InitPace /\ [][Next]_vars

\* ------------------------------------------------------------------------
\* merge_synonyms called alone
\* ------------------------------------------------------------------------
MergeTokens == { <<>>, <<"a">>, <<" ", "a">>, <<"a", "\t", " ", "b">>, <<"b">> }

\* the sequences over S of length at most n
SeqsUpTo(S, n) == UNION { [1..k -> S] : k \in 0..n }

InitMerge ==
    /\ job = "merge_synonyms"
    /\ fallback_model = ""
    /\ api_key = None
    /\ args_min_interval = 0
    /\ Started(<<>>)
    /\ \E tt \in 0..TargetTotal :
       \E ex \in SeqsUpTo(MergeTokens, tt), nw \in SeqsUpTo(MergeTokens, MaxCandidates) :
         m_in = [existing |-> ex, new_items |-> nw, cap |-> tt]
    /\ m_out = [done |-> FALSE, merged |-> <<>>]

\* merged = merge_synonyms(existing, new_items, cap=target_total)
M_Call ==
    /\ job = "merge_synonyms" /\ ~m_out.done
    /\ m_out' = [done |-> TRUE,
                 merged |-> merge_synonyms(m_in.existing, m_in.new_items, m_in.cap)]
    /\ UNCHANGED <<Params, History, disk, file_idx, pc, rows, fieldnames, start, attempt, results,
                   updated, api_calls, batches_since_ckpt, elapsed, UT_state, m_in,
                   sent, wrote, last_outcome, fatal_seen, batch_rows0, streak, Trace>>

SpecMerge == InitMerge /\ [][M_Call]_vars

\* ------------------------------------------------------------------------
\* write_csv_atomic called alone, statement by statement
\* ------------------------------------------------------------------------
\* disk[1] is path; m_in holds the arguments fieldnames and rows; start counts
\* the records written
WR == "write_csv_atomic"

tmp_path_in_place(f) == f

\* path.with_suffix(path.suffix + ".tmp"): the sibling file, disk[2]
tmp_path(f) == f + 1

\* a file left by a process that was killed while it wrote
StaleTmp == File(<<>>, <<>>)

InitWrite ==
    /\ job = WR
    /\ fallback_model = ""
    /\ api_key = None
    /\ args_min_interval = 0
    /\ \E old \in {MissingFile, FreshFile, File(BaseFields \o SentenceFields,
                                                LaterRows(Row(Txt_a, Txt_b, Txt_a, Txt_b)))},
          tmp \in {MissingFile, StaleTmp} : Started(<<old, tmp>>)
    /\ \E fn \in {BaseFields, BaseFields \o SentenceFields}, rws \in [1..NumRows -> AS_RowKinds] :
          m_in = [fieldnames |-> fn, rows |-> rws]
    /\ m_out = <<>>

\* what a statement of write_csv_atomic leaves alone
W_frame == <<Params, History, file_idx, rows, fieldnames, attempt, results, updated, api_calls,
             batches_since_ckpt, elapsed, UT_state, M_state, sent, last_outcome, fatal_seen,
             batch_rows0, streak, Trace>>

\* tmp_path.open("w"): the temporary file is created, or emptied
W_Open ==
    /\ job = WR /\ pc = "start"
    /\ disk' = [disk EXCEPT ![tmp_path(1)] = File(<<>>, <<>>)]
    /\ pc' = "header"
    /\ UNCHANGED <<start, wrote>>
    /\ UNCHANGED W_frame

\* writer.writeheader()
W_Header ==
    /\ job = WR /\ pc = "header"
    /\ disk' = [disk EXCEPT ![tmp_path(1)].fieldnames = m_in.fieldnames]
    /\ pc' = "rows"
    /\ UNCHANGED <<start, wrote>>
    /\ UNCHANGED W_frame

\* writer.writerows(rows), one record
W_Row ==
    /\ job = WR /\ pc = "rows" /\ start < Len(m_in.rows)
    /\ disk' = [disk EXCEPT ![tmp_path(1)].rows =
                    Append(@, RowOut(m_in.fieldnames, m_in.rows[start + 1]))]
    /\ start' = start + 1
    /\ UNCHANGED <<pc, wrote>>
    /\ UNCHANGED W_frame

\* the end of the with block: the temporary file is closed
W_Close ==
    /\ job = WR /\ pc = "rows" /\ start = Len(m_in.rows)
    /\ pc' = "closed"
    /\ UNCHANGED <<disk, start, wrote>>
    /\ UNCHANGED W_frame

\* tmp_path.replace(path): one rename
W_Replace ==
    /\ job = WR /\ pc = "closed"
    /\ disk' = IF tmp_path(1) = 1 THEN disk
               ELSE [disk EXCEPT ![1] = disk[tmp_path(1)], ![tmp_path(1)] = MissingFile]
    /\ pc' = "done"
    /\ wrote' = TRUE
    /\ UNCHANGED start
    /\ UNCHANGED W_frame

\* the process is killed before the rename
W_Crash ==
    /\ job = WR /\ pc \in {"start", "header", "rows", "closed"}
    /\ pc' = "crashed"
    /\ UNCHANGED <<disk, start, wrote>>
    /\ UNCHANGED W_frame

W_Next == W_Open \/ W_Header \/ W_Row \/ W_Close \/ W_Replace \/ W_Crash

SpecWrite == InitWrite /\ [][W_Next]_vars

\* ------------------------------------------------------------------------
\* The need and the request items of one batch of update_thai_meanings
\* ------------------------------------------------------------------------
ND == "need"

\* cells of the column 'ความหมาย': empty, three entries, four, four of which
\* two pairs are equal, four equal up to inner whitespace, five
NeedCells ==
    { <<>>,
      <<"a", ",", " ", "b", ",", " ", "c">>,
      <<"a", ",", " ", "b", ",", " ", "c", ",", " ", "d">>,
      <<"a", ",", " ", "a", ",", " ", "b", ",", " ", "b">>,
      <<"a", " ", "b", ",", "a", " ", " ", "b", ",", "a", "\t", "b", ",", "a", " ", "b">>,
      <<"a", ",", "b", ",", "c", ",", "d", ",", "e">> }

\* m_in: the records of a file and the start of one of its batches
InitNeed ==
    /\ job = ND
    /\ fallback_model = ""
    /\ api_key = None
    /\ args_min_interval = 0
    /\ Started(<<>>)
    /\ \E n \in 1..NumRows : \E cells \in [1..n -> NeedCells] :
       \E st \in { b \in 0..(n - 1) : b % BatchSize = 0 } :
          m_in = [rows |-> [i \in 1..n |-> Row(Txt_a, cells[i], None, None)], start |-> st]
    /\ m_out = [done |-> FALSE]

\* the skip test of process_file and the loop of generate_additions_batch_once
\* that computes need and collects the items
N_Call ==
    /\ job = ND /\ ~m_out.done
    /\ m_out' = [done |-> TRUE,
                 skip |-> UT_skip(m_in.rows, m_in.start),
                 need |-> [i \in 1..Len(m_in.rows) |-> UT_need(m_in.rows[i])],
                 items |-> UT_items(m_in.rows, m_in.start)]
    /\ UNCHANGED <<Params, History, disk, file_idx, pc, rows, fieldnames, start, attempt,
                   results, updated, api_calls, batches_since_ckpt, elapsed, UT_state, m_in,
                   sent, wrote, last_outcome, fatal_seen, batch_rows0, streak, Trace>>

SpecNeed == InitNeed /\ [][N_Call]_vars

\* ------------------------------------------------------------------------
\* The loop over results.items() of one batch, response after response
\* ------------------------------------------------------------------------
\* m_in holds the records of a file and the start of one of its batches.  The
\* records of the batch are of every kind, the others lack what the script
\* adds.  add_sentences applies one response to a batch; update_thai_meanings
\* applies the response of each attempt, and attempts again when the loop raised.

\* the index len(batch) of a full batch, and a second spelling of index 0
KeyEnd == <<Digits[BatchSize + 1]>>
KeyAgain == <<"0", "0">>

\* cells of the column 'ความหมาย': empty; three entries, two of them equal
\* after normalization; one entry in quotes; four entries written without spaces
UT_ApplyCells ==
    { <<>>,
      <<"a", "\t", "b", ",", " ", "a", " ", "b", ",", " ", "c">>,
      <<"\"", "b", "\"">>,
      <<"a", ",", "b", ",", "c", ",", "d">> }

ApplyKinds(j) == IF j = AS THEN AS_RowKinds
                 ELSE { Row(Txt_a, c, None, None) : c \in UT_ApplyCells }

ApplyInputs(j) ==
    UNION { { [rows |-> [i \in 1..NumRows |->
                           IF i \in BatchIdx([k \in 1..NumRows |-> 0], st) THEN b[i]
                           ELSE IF j = AS THEN Row(Txt_a, Txt_a, <<>>, <<>>)
                           ELSE Row(Txt_a, <<>>, None, None)],
               start |-> st] :
              b \in [BatchIdx([k \in 1..NumRows |-> 0], st) -> ApplyKinds(j)] } :
            st \in { t \in 0..(NumRows - 1) : t % BatchSize = 0 } }

\* values of a response entry: one the loop applies, and ones it passes over
\* or raises on
ApplyValues(j) ==
    IF j = AS
    THEN [good |-> { JObj(JStr(Txt_x), JStr(Txt_y)), JObj(JStr(<<" ">>), JStr(Txt_y)) },
          more |-> JObj(JStr(Txt_y), JStr(Txt_x)),
          bad  |-> JObj(JNum, JStr(Txt_y)),
          odd  |-> { JOther }]
    ELSE [good |-> { JStr(<<"x", ",", " ", "a", " ", "b">>),
                     JStr(<<"c", ",", "x", " ", ",", "y", ",", "z", ",", "v">>) },
          more |-> JStr(Txt_y),
          bad  |-> JNum,
          odd  |-> { JNull }]

\* parsed responses of one, two and three entries: entries for the records of
\* the batch, a second entry for record 0, and entries whose key is past the
\* batch, negative, or no integer
ApplyResponses(j) ==
    LET v == ApplyValues(j)
        first == { Entry(k, w) : k \in {Key0, Key1}, w \in v.good }
        other == { Entry(KeyAgain, v.more), Entry(KeyAgain, v.bad), Entry(KeyEnd, v.more),
                   Entry(KeyFar, v.bad), Entry(KeyWord, v.bad), Entry(KeyNeg, v.more) }
    IN  {<<>>}
        \cup { <<Entry(k, w)>> : k \in {Key0, Key1}, w \in v.good \cup v.odd \cup {v.bad} }
        \cup { <<e1, e2>> : e1 \in first, e2 \in other }
        \cup { <<e2, e1>> : e1 \in first, e2 \in other }
        \cup { <<e, Entry(Key0, v.more), Entry(Key1, v.more)>> :
                 e \in { Entry(KeyEnd, v.bad), Entry(KeyNeg, v.more), Entry(Key1, v.bad) } }

InitApply ==
    /\ job \in {AS, UT}
    /\ fallback_model = ""
    /\ api_key = <<"k">>
    /\ args_min_interval = default_min_interval(job)
    /\ Started(<<>>)
    /\ m_in \in ApplyInputs(job)
    /\ m_out = <<>>

\* batch = rows[start:start + batch_size], as process_file comes to it
P_Load ==
    /\ job \in {AS, UT} /\ pc = "start"
    /\ rows' = m_in.rows
    /\ start' = m_in.start
    /\ batch_rows0' = m_in.rows
    /\ attempt' = 1
    /\ pc' = "batch"
    /\ UNCHANGED <<Params, History, disk, file_idx, fieldnames, results, updated, api_calls,
                   batches_since_ckpt, elapsed, UT_state, M_state, sent, wrote, last_outcome,
                   fatal_seen, streak, Trace>>

\* the loop over results.items() for the parsed response of one request; in
\* update_thai_meanings an error of the loop is caught and the batch attempted
\* again, in add_sentences it ends the process
P_Apply ==
    /\ job \in {AS, UT} /\ pc = "batch"
    /\ \E r \in ApplyResponses(job) :
       \E a \in {IF job = AS THEN AS_apply(rows, start, r, updated)
                 ELSE UT_apply(rows, start, r, updated)} :
         /\ results' = r
         /\ rows' = a.rows
         /\ updated' = a.updated
         /\ last_outcome' = IF a.raised THEN "other" ELSE "success"
         /\ pc' = IF job = AS THEN (IF a.raised THEN "crashed" ELSE "applied")
                  ELSE IF UT_after_attempt(~a.raised, attempt) = "attempt" THEN "batch"
                  ELSE "applied"
         /\ attempt' = IF pc' = "batch" THEN attempt + 1 ELSE attempt
    /\ UNCHANGED <<Params, History, disk, file_idx, fieldnames, start, api_calls,
                   batches_since_ckpt, elapsed, UT_state, M_state, sent, wrote,
                   fatal_seen, batch_rows0, streak, Trace>>

SpecApply == InitApply /\ [][P_Load \/ P_Apply]_vars

\* ------------------------------------------------------------------------
\* Properties
\* ------------------------------------------------------------------------
\* the skip test of process_file in script j
skip(j, rws, st) == IF j = AS THEN AS_skip(rws, st) ELSE UT_skip(rws, st)
\* spec 3, Field Requirement of a list-valued target: the column holds at
\* least target_total distinct normalized entries
DistinctEntries(cell) ==
    LET l == split_thai_list(cell) IN { normalize_token(l[i]) : i \in 1..Len(l) }

\* spec 3, Field Requirement: a sentence column holds a non-empty value, the
\* synonym column holds target_total distinct entries
Satisfied(j, r) ==
    IF j = AS
    THEN Strip(OrEmpty(r.jp_sentence)) /= <<>> /\ Strip(OrEmpty(r.th_sentence)) /= <<>>
    ELSE Cardinality(DistinctEntries(r.thai)) >= TargetTotal

\* the indices of the current batch and of the batches after it
FromBatch == (start + 1)..Len(rows)

\* C1: in add_sentences, a request that fails quota-fatal mutates no record and
\* writes nothing, the next step is the handler of process_file, which sends no
\* request, calls write_csv_atomic once and returns to main; the records of the
\* current and the later batches are then, in memory and in the file written,
\* what they were when the batch was entered.
C1_FatalShortCircuit ==
    [][ job = AS =>
          /\ (sent' /\ last_outcome' = "fatal") =>
                (pc' = "fatal" /\ rows' = rows /\ ~wrote' /\ start' = start)
          /\ pc = "fatal" =>
                /\ ~sent' /\ wrote'
                /\ pc' = "main" /\ file_idx' = file_idx + 1
                /\ \A i \in FromBatch :
                      /\ rows[i] = batch_rows0[i]
                      /\ disk'[file_idx].rows[i] = RowOut(fieldnames, batch_rows0[i]) ]_vars

\* C1: the handler is reached in a later batch, after a failed attempt that
\* was retried, with records of the first batch changed since the file was read
C1_Witness ==
    /\ job = AS /\ pc = "fatal" /\ start > 0 /\ attempt > 1
    /\ rows /= disk[file_idx].rows

\* C2 (as claimed): after a quota-fatal failure add_sentences sends no request,
\* not for the files that follow in --files either
C2_NoRequestAfterFatal == [][ (job = AS /\ fatal_seen) => ~sent' ]_vars

\* C3 (as claimed): in update_thai_meanings an attempt that fails on daily
\* exhaustion is not retried and does not raise the cooldown level
C3_DailyExhaustionStops ==
    [][ (job = UT /\ sent' /\ last_outcome' = "fatal") =>
          (cooldown_level' = cooldown_level /\ pc' /= "attempt") ]_vars

\* C4 (as claimed): with no quota-fatal error met, no response ends the run
\* before the final write_csv_atomic of process_file
C4_NeverAborts == ~fatal_seen => pc /= "crashed"

\* C5 (as claimed): in update_thai_meanings, a batch left after attempts that
\* all raised has every record as it was when the batch was entered
C5_AbandonedUnchanged ==
    (job = UT /\ pc = "ckpt" /\ last_outcome /= "success") =>
        \A i \in BatchIdx(rows, start) : rows[i] = batch_rows0[i]

\* C6: in update_thai_meanings the cooldown level stays within the ladder;
\* N transient quota failures in a row from level 0 leave it at
\* min(N, len(cooldown_schedule) - 1); a success lowers it by one, not below 0
C6_Ladder ==
    job = UT =>
      /\ 0 <= cooldown_level /\ cooldown_level <= Len(cooldown_schedule) - 1
      /\ streak.level0 = 0 =>
            cooldown_level = Min(streak.run, Len(cooldown_schedule) - 1)

\* C6: the ladder invariant in every reachable state, and every successful
\* attempt leaves the level at max(0, level - 1)
C6_Cooldown ==
    /\ []C6_Ladder
    /\ [][ (job = UT /\ sent' /\ last_outcome' = "success") =>
             cooldown_level' = Max(0, cooldown_level - 1) ]_vars

\* C6: six transient quota failures in a row from level 0: the top of the ladder
C6_Witness ==
    /\ job = UT /\ streak.level0 = 0 /\ streak.run = 6
    /\ cooldown_level = Len(cooldown_schedule) - 1

\* C7: in update_thai_meanings, with a fallback model given, once two transient
\* quota failures in a row have happened the model of the next attempt is the
\* fallback until a success; after a success the failure counter is zero and
\* the model is the primary; with fewer than two quota failures since the
\* latest success the model is the primary
C7_Identity ==
    job = UT =>
      /\ (fallback_model /= "" /\ streak.two) => current_model = fallback_model
      /\ last_outcome = "success" =>
            (consecutive_quota_fail_batches = 0 /\ current_model = model_name)
      /\ streak.since_success < 2 => current_model = model_name

\* C7: the fallback is still selected for the next batch, after two transient
\* quota failures and then a failure of another kind
C7_Witness ==
    /\ job = UT /\ pc = "attempt" /\ attempt = 1 /\ start > 0
    /\ streak.two /\ streak.run = 0 /\ streak.since_success = 2
    /\ current_model = fallback_model /\ fallback_model /= ""

\* a response entry that process_file of add_sentences applies to record i
C8_Candidate(e, i) ==
    /\ ParseInt(e.key).ok /\ start + ParseInt(e.key).val + 1 = i
    /\ e.val.kind = "obj"
    /\ Strip(TextOf(e.val.jp)) /= <<>>
    /\ Strip(TextOf(e.val.th)) /= <<>>

\* C8: while process_file of add_sentences runs, a sentence cell that is not
\* empty after trimming keeps its value, in memory and in every file written,
\* and a record changes only if the response holds an entry for it whose jp
\* and th are both non-empty after trimming
C8_NeverOverwritten ==
    [][ (job = AS /\ pc \notin {"main", "done"}) =>
          \A i \in 1..Len(rows) :
            /\ Len(rows') = Len(rows) =>
                /\ Strip(OrEmpty(rows[i].jp_sentence)) /= <<>> =>
                      rows'[i].jp_sentence = rows[i].jp_sentence
                /\ Strip(OrEmpty(rows[i].th_sentence)) /= <<>> =>
                      rows'[i].th_sentence = rows[i].th_sentence
                /\ rows'[i] /= rows[i] =>
                      (pc = "apply" /\ \E k \in 1..Len(results) : C8_Candidate(results[k], i))
            /\ wrote' =>
                /\ Strip(OrEmpty(rows[i].jp_sentence)) /= <<>> =>
                      disk'[file_idx].rows[i].jp_sentence = rows[i].jp_sentence
                /\ Strip(OrEmpty(rows[i].th_sentence)) /= <<>> =>
                      disk'[file_idx].rows[i].th_sentence = rows[i].th_sentence ]_vars

\* C8: a record that had a Thai sentence and a blank Japanese one was offered a
\* candidate: the Japanese cell is filled, the Thai one is as it was
C8_Witness ==
    /\ job = AS /\ pc = "ckpt"
    /\ \E i \in BatchIdx(rows, start) :
         /\ batch_rows0[i].jp_sentence = <<" ">> /\ batch_rows0[i].th_sentence = Txt_b
         /\ rows[i].jp_sentence = Txt_x /\ rows[i].th_sentence = Txt_b

\* C9: merge_synonyms(existing, candidates, cap=target_total), for existing of
\* at most target_total entries, returns at most target_total entries, none
\* empty, no two equal after normalization
C9_MergeCap ==
    m_out.done =>
      /\ Len(m_out.merged) <= m_in.cap
      /\ \A i \in 1..Len(m_out.merged) :
           /\ normalize_token(m_out.merged[i]) /= <<>>
           /\ \A k \in 1..Len(m_out.merged) :
                normalize_token(m_out.merged[i]) = normalize_token(m_out.merged[k]) => i = k

\* C9: the cap cut the merged list, and an entry was dropped as a duplicate
C9_Witness ==
    /\ m_out.done /\ m_in.cap > 1 /\ Len(m_out.merged) = m_in.cap
    /\ Len(m_in.existing) = m_in.cap
    /\ Len(merge_synonyms(m_in.existing, m_in.new_items, m_in.cap + 2)) > m_in.cap
    /\ \E i, k \in 1..Len(m_in.existing) :
         i /= k /\ normalize_token(m_in.existing[i]) = normalize_token(m_in.existing[k])

\* C10: in both scripts, a batch whose records all satisfy their Field
\* Requirement is passed over in one step that sends no request, does not call
\* pace (the clock and last_call_ts are as before), changes no record and no
\* file and leaves the checkpoint counter and api_calls alone
C10_Skip ==
    [][ (/\ pc = "loop" /\ start < Len(rows)
         /\ \A i \in BatchIdx(rows, start) : Satisfied(job, rows[i])) =>
          /\ ~sent' /\ ~wrote'
          /\ elapsed' = elapsed
          /\ rows' = rows /\ disk' = disk
          /\ batches_since_ckpt' = batches_since_ckpt
          /\ api_calls' = api_calls
          /\ pc' = "loop" /\ start' = start + BatchSize ]_vars

\* C10: every batch of a file was passed over: the end of the loop is reached
\* with the clock, the counters and the file as they were when the file was read
C10_Witness ==
    /\ pc = "loop" /\ Len(rows) > BatchSize /\ start >= Len(rows)
    /\ \A i \in 1..Len(rows) : Satisfied(job, rows[i])
    /\ elapsed = min_interval(job) /\ api_calls = 0 /\ batches_since_ckpt = 0
    /\ rows = disk[file_idx].rows

\* every record of every file of d satisfies its Field Requirement
AllSatisfied(d) ==
    \A f \in 1..Len(d) : \A i \in 1..Len(d[f].rows) : Satisfied(job, d[f].rows[i])

\* C11: when every record of the dataset satisfies its Field Requirement, no
\* step of the first process or of the one run after it sends a request, and
\* the file the second one saves has the columns, in order, and the records of
\* the file the first one saved
C11_Idempotent ==
    [][ AllSatisfied(saved[1]) =>
          /\ ~sent'
          /\ (run' = 2 /\ (wrote' \/ pc' = "done")) => disk' = saved'[2] ]_vars

\* C11: the second process has ended on a dataset of satisfied records that
\* the first one saved and the second one saved again
C11_Witness ==
    /\ run = 2 /\ pc = "main" /\ wrote
    /\ Len(saved[1][1].rows) = NumRows /\ AllSatisfied(saved[1])
    /\ disk = saved[2]

\* C16: in the process run after the first, on the files the first left, the
\* skip test is false for every batch the first gave up after its last
\* attempt failed, and when the loop comes to such a batch it is attempted
C16_Resumable ==
    [][ run = 2 =>
          /\ \A b \in abandoned : ~skip(job, saved[2][b[1]].rows, b[2])
          /\ (pc = "loop" /\ <<file_idx, start>> \in abandoned) =>
                (pc' \in {"gen", "attempt"} /\ start' = start) ]_vars

\* C16: the second process attempts the batch the first gave up; the first
\* had changed the file in its other batch
C16_Witness ==
    /\ run = 2 /\ pc \in {"gen", "attempt"} /\ sent
    /\ <<file_idx, start>> \in abandoned
    /\ saved[2] /= saved[1]

\* C12: write_csv_atomic called alone, and killed at any statement or not:
\* until the rename, path holds what it held before the call; the one step
\* that changes path is the rename, which leaves it holding the header and
\* every record of the call; so path never holds part of the new content
C12_AtomicWrite ==
    /\ [](job = WR =>
            IF pc = "done"
            THEN disk[1] = write_csv_atomic(saved[1], 1, m_in.fieldnames, m_in.rows)[1]
            ELSE disk[1] = saved[1][1])
    /\ [][ (job = WR /\ disk'[1] /= disk[1]) => (pc = "closed" /\ pc' = "done") ]_vars

\* C12: the process was killed after it wrote the header and some records, not
\* all, to the temporary file, and path, which existed, holds what it held
C12_Witness ==
    /\ job = WR /\ pc = "crashed"
    /\ disk[2].fieldnames = m_in.fieldnames
    /\ Len(disk[2].rows) > 0 /\ Len(disk[2].rows) < Len(m_in.rows)
    /\ saved[1][1].exists /\ disk[1] = saved[1][1]
    /\ disk[1] /= write_csv_atomic(saved[1], 1, m_in.fieldnames, m_in.rows)[1]

\* --checkpoint-every of the run of script j
checkpoint_every(j) == IF j = AS THEN AS_checkpoint_every ELSE UT_checkpoint_every

\* the file process_file writes when it saves the records in memory
SavedNow == File(fieldnames, [i \in 1..Len(rows) |-> RowOut(fieldnames, rows[i])])

C13_Step ==
    job \in {AS, UT} =>
        /\ pc = "ckpt" =>
             IF batches_since_ckpt + 1 >= checkpoint_every(job)
             THEN wrote' /\ disk'[file_idx] = SavedNow /\ batches_since_ckpt' = 0
             ELSE ~wrote' /\ disk' = disk /\ batches_since_ckpt' = batches_since_ckpt + 1
        /\ (pc = "fatal" \/ (pc = "loop" /\ start >= Len(rows))) =>
             (wrote' /\ disk'[file_idx] = SavedNow /\ pc' = "main")
        /\ (pc \in {"loop", "gen", "attempt", "apply"} /\ pc' /= "main") =>
             (~wrote' /\ batches_since_ckpt' = batches_since_ckpt)

\* C13: in both scripts the checkpoint counter stays below checkpoint_every;
\* the end of an un-skipped batch adds one to it, and when that makes
\* checkpoint_every the records are saved in the same step and the counter is
\* zero again; the end of the loop over the batches and the quota-fatal
\* handler each save the records and return, whatever the counter
C13_Checkpointing ==
    /\ [](job \in {AS, UT} => batches_since_ckpt < checkpoint_every(job))
    /\ [][C13_Step]_vars

\* C13: add_sentences filled the first batch, met the quota-fatal error in the
\* second, one batch short of a checkpoint, and the handler saved the file
C13_Witness ==
    /\ job = AS /\ pc = "main" /\ wrote /\ fatal_seen /\ file_idx = 2
    /\ disk[1] /= saved[1][1]
    /\ \E i \in 1..BatchSize : disk[1].rows[i].jp_sentence = Txt_x

\* process_file holds records in memory
Loaded == job \in {AS, UT} /\ pc \in {"loop", "gen", "attempt", "apply", "fatal", "ckpt", "crashed"}

\* the batches with a record that a save now would change in the file
UnsavedBatches ==
    { b \in 0..(Len(rows) - 1) :
        /\ b % BatchSize = 0
        /\ \E i \in BatchIdx(rows, b) :
             RowOut(fieldnames, rows[i]) /= RowOut(fieldnames, disk[file_idx].rows[i]) }

\* C14 (as claimed): wherever the process is killed, the records in memory
\* differ from the file by the changes of at most checkpoint_every - 1 batches
C14_AtMostNMinus1 ==
    Loaded => Cardinality(UnsavedBatches) <= checkpoint_every(job) - 1

C14_Step ==
    (Loaded /\ pc' = "main") => disk'[file_idx] = SavedNow

\* C14 (amended): the records in memory differ from the file by the changes of
\* at most checkpoint_every batches: those counted since the latest save, and
\* the batch being applied or waiting for its checkpoint; between batches
\* they differ by at most checkpoint_every - 1; and when process_file returns,
\* at the end of its loop or from the quota-fatal handler, the file holds
\* every record as it is in memory
C14_AtMostN ==
    /\ [](Loaded =>
            /\ Cardinality(UnsavedBatches) <=
                  batches_since_ckpt + (IF pc \in {"loop", "gen", "fatal"} THEN 0 ELSE 1)
            /\ batches_since_ckpt <= checkpoint_every(job) - 1)
    /\ [][C14_Step]_vars

\* C14: checkpoint_every batches are changed in memory and not in the file:
\* the last of them was applied and its checkpoint is the next statement
C14_Witness ==
    /\ Loaded /\ pc = "ckpt"
    /\ batches_since_ckpt = checkpoint_every(job) - 1
    /\ Cardinality(UnsavedBatches) = checkpoint_every(job)

\* seconds, up to min_interval, between the request a step sends and the one
\* before it: update_thai_meanings calls pace in the step, add_sentences
\* sends at once
RequestGap ==
    IF job = UT THEN Clock(UT, since_req + pace(UT, elapsed).wait) ELSE since_req

\* C15 (as claimed): every request of a process_file run begins at least
\* min_interval after the request before it began, retries included, for
\* every --min-interval
C15_Paced == [][ (job \in {AS, UT} /\ sent') => RequestGap >= min_interval(job) ]_vars

C17_Step ==
    (/\ job \in {AS, UT} /\ pc = "main"
     /\ file_idx <= Len(disk) /\ ~disk[file_idx].exists) =>
        /\ ~sent' /\ ~wrote' /\ disk' = disk
        /\ pc' = "main" /\ file_idx' = file_idx + 1

\* C17: process_file on a file that is missing sends no request, writes and
\* creates no file, and returns to main's loop at the next file; with
\* GEMINI_API_KEY unset or blank the process ends before main's loop: no file
\* is read or written and no request is sent
C17_MissingInputs ==
    /\ [][C17_Step]_vars
    /\ []((job \in {AS, UT} /\ (api_key = None \/ Strip(api_key) = <<>>)) =>
            (pc \in {"start", "exit"} /\ disk = saved[1] /\ ~sent /\ ~wrote /\ rows = <<>>))

\* C17: the first file of --files is missing and a request is sent for the
\* second
C17_Witness ==
    /\ job \in {AS, UT} /\ file_idx = 2 /\ sent
    /\ ~disk[1].exists /\ disk[2].exists

\* the retry count of script j
MaxRequests(j) == IF j = AS THEN max_retries ELSE max_batch_retries

C18_Step ==
    job \in {AS, UT} =>
        /\ sent' => (batch_reqs' = batch_reqs + 1 /\ start' = start)
        /\ (sent' /\ last_outcome' /= "success" /\ batch_reqs' >= MaxRequests(job)) =>
              pc' \notin {"gen", "attempt"}
        /\ (Loaded /\ pc' /= "main") =>
              (start' >= start /\ (pc = "ckpt" => start' > start))

\* C18: the requests sent for a batch never exceed the retry count of the
\* script; the attempt that fails as the last of them leaves the retry loop;
\* and within a process_file run the loop over the batches only goes forward,
\* so a batch given up is not entered again
C18_BoundedRetries ==
    /\ [](job \in {AS, UT} => batch_reqs <= MaxRequests(job))
    /\ [][C18_Step]_vars

\* C18: the first batch was given up after the last allowed request failed, and
\* a request is sent for the next batch
C18_Witness ==
    /\ job \in {AS, UT} /\ run = 1 /\ <<1, 0>> \in abandoned
    /\ start > 0 /\ sent /\ batch_reqs = 1

\* C19 (as claimed): a batch that is not skipped is applied and counted only
\* after at least one request was sent for it
C19_OneRequest ==
    (job \in {AS, UT} /\ pc \in {"apply", "ckpt"}) => batch_reqs >= 1

\* C20 (as claimed): for every record of a batch, need is max(0, target_total -
\* the number of distinct normalized entries of its column), the record is an
\* item of the request exactly when that number is below target_total, and the
\* batch is skipped exactly when no record is an item
C20_NeedOfDistinct ==
    (job = ND /\ m_out.done) =>
        /\ \A i \in BatchIdx(m_in.rows, m_in.start) :
             /\ m_out.need[i] =
                   Max(0, TargetTotal - Cardinality(DistinctEntries(m_in.rows[i].thai)))
             /\ (i - m_in.start - 1 \in m_out.items) <=> ~Satisfied(UT, m_in.rows[i])
             /\ (i - m_in.start - 1 \in m_out.items) <=> m_out.need[i] > 0
        /\ m_out.skip <=> m_out.items = {}

\* C22 (as claimed): in update_thai_meanings an attempt that fails with an
\* error that is no quota error sleeps the linear backoff min(30, 3 * attempt)
\* and nothing of the cooldown schedule, leaves the cooldown level, the failure
\* counter and the selected model as they were, and changes no record
C22_OtherErrorFrame ==
    [][ (job = UT /\ sent' /\ last_outcome' = "other") =>
          /\ elapsed' = Min(30, 3 * attempt)
          /\ cooldown_level' = cooldown_level
          /\ consecutive_quota_fail_batches' = consecutive_quota_fail_batches
          /\ current_model' = current_model
          /\ rows' = rows ]_vars


\* C23 (as claimed): in update_thai_meanings the model of the next attempt
\* changes from the primary to the fallback only in an attempt that fails on
\* quota right after an attempt that failed on quota, with no success and no
\* failure of another kind between the two
C23_ConsecutiveOnly ==
    [][ (job = UT /\ current_model = model_name /\ current_model' /= model_name) =>
          (current_model' = fallback_model /\ streak'.quota_run >= 2) ]_vars


\* the loop over results.items() of script j
Apply(j, rws, st, es) == IF j = AS THEN AS_apply(rws, st, es, 0) ELSE UT_apply(rws, st, es, 0)

\* the key of a response entry is an integer that is an index of the batch
InBatchKey(e) ==
    /\ ParseInt(e.key).ok
    /\ ParseInt(e.key).val \in 0..(Cardinality(BatchIdx(rows, start)) - 1)

C21_Step ==
    (job \in {AS, UT} /\ pc = "batch") =>
        /\ \A i \in 1..Len(rows) :
             (i \notin BatchIdx(rows, start) \/ Satisfied(job, rows[i])) => rows'[i] = rows[i]
        /\ \E kept \in {Apply(job, rows, start, SelectSeq(results', InBatchKey))} :
               /\ rows' = kept.rows
               /\ updated' = updated + kept.updated
               /\ (last_outcome' = "other") <=> kept.raised
        /\ (\A k \in 1..Len(results') : ~InBatchKey(results'[k])) =>
              (rows' = rows /\ last_outcome' = "success")

\* C21: when the loop over results.items() has run for a parsed response, in
\* either script, the records outside rows[start:start + batch_size] and the
\* records of the batch that satisfy their Field Requirement are as before;
\* the records, the count and an error of the loop are what they are for the
\* response without its entries whose key is no integer or no index of the
\* batch; a response of such entries only changes nothing and raises nothing
C21_KeysConfined == [][C21_Step]_vars

\* C21: the response held a negative key, an entry for a satisfied record of
\* the batch and an entry for an unsatisfied one: only the last was changed
C21_Witness ==
    /\ job \in {AS, UT} /\ pc = "applied" /\ Len(results) = 3
    /\ results[1].key = KeyNeg /\ start + 2 <= Len(rows)
    /\ Satisfied(job, batch_rows0[start + 1]) /\ rows[start + 1] = batch_rows0[start + 1]
    /\ rows[start + 2] /= batch_rows0[start + 2]
    /\ \A i \in 1..Len(rows) : i /= start + 2 => rows[i] = batch_rows0[i]

\* the entries of l, normalized, each at its first place
RECURSIVE FirstOccurrences(_)
FirstOccurrences(l) ==
    IF l = <<>> THEN <<>>
    ELSE LET r == FirstOccurrences(SubSeq(l, 1, Len(l) - 1))
             x == normalize_token(l[Len(l)])
         IN  IF InSeq(x, r) THEN r ELSE Append(r, x)

IsPrefix(p, l) == Len(p) <= Len(l) /\ SubSeq(l, 1, Len(p)) = p

ChangeEvents(j, rws, st, es) ==
    { k \in 1..Len(es) :
        Apply(j, rws, st, SubSeq(es, 1, k)).rows /= Apply(j, rws, st, SubSeq(es, 1, k - 1)).rows }

\* C26 (as claimed): the loop over results.items() adds to updated (add_sentences)
\* or updated_rows (update_thai_meanings) the number of response entries whose
\* turn changed a column of a record, so the total reported is that number
C26_CountsExact ==
    [][ (job \in {AS, UT} /\ pc = "batch") =>
          updated' - updated = Cardinality(ChangeEvents(job, rows, start, results')) ]_vars


\* C25 (as claimed): a process_file run that has loaded its records, in either
\* script and whatever the service answers, comes to return to main, and it
\* returns only from the end of the loop over the batches or from the
\* quota-fatal handler, by the step that has saved the file
C25_Terminates ==
    /\ (job \in {AS, UT} /\ pc = "loop") ~> (pc = "main" /\ wrote)
    /\ [][ (Loaded /\ pc' \notin {"loop", "gen", "attempt", "apply", "fatal", "ckpt"}) =>
             (pc' = "main" /\ wrote' /\ disk'[file_idx] = SavedNow
              /\ (pc = "fatal" \/ (pc = "loop" /\ start >= Len(rows)))) ]_vars


====
